---- MODULE Spec2Model ----
(***************************************************************************)
(* Model of media-stream-download.js: the VideoDownloader orchestrator,    *)
(* its VideoDownloadWorker objects, the HTMLVideoElement each worker       *)
(* listens to and the MediaRecorder objects each worker creates.           *)
(*                                                                         *)
(* A worker is a record of its private fields.  The MediaRecorder objects  *)
(* a worker has created are kept in the record too (field recorders, the   *)
(* heap of that worker): a recorder that the field mediaRecorder no longer *)
(* references still exists, still records and still calls the handlers     *)
(* that were attached to it.                                               *)
(*                                                                         *)
(* The browser is the environment.  The video fires its events at any      *)
(* time and its attributes are whatever the event allows.  A recorder      *)
(* fires dataavailable while it records (as it does when data is           *)
(* requested or a timeslice is set) and once more, with its final chunk,   *)
(* after it was inactivated; then it fires stop.  A chunk may be of size   *)
(* zero.  captureStream or the MediaRecorder constructor throws for a      *)
(* video that cannot be captured.                                          *)
(***************************************************************************)
EXTENDS Integers, Sequences, FiniteSets, TLC

\* ------------------------------------------------------------------ bounds
MaxRec == 2         \* MediaRecorder objects one worker creates (single video)
MaxChunks == 1      \* chunks the recorders of a worker deliver before their final ones
OrchRec == 1        \* MediaRecorder objects per worker on a page of NumVideos
NumVideos == 3      \* videos on the page of the orchestrator specification

VARIABLES
    workers,        \* VideoDownloader.#workers: sequence of worker records
    thrown,         \* TRUE iff the last call of a public function threw
    solo,           \* history: per worker, the recorders that never overlapped another
    scen,           \* history: per worker, progress of stalled/playing/ended
    last            \* history: the last step, its worker and that worker's state before

vars == <<workers, thrown, solo, scen, last>>

\* ------------------------------------------------------------ the video
\* The attributes of an HTMLVideoElement the 'playing' getter reads.
VideoStates ==
    { [currentTime |-> 0, paused |-> FALSE, ended |-> FALSE, readyState |-> 4],
      [currentTime |-> 1, paused |-> FALSE, ended |-> FALSE, readyState |-> 4],
      [currentTime |-> 1, paused |-> TRUE,  ended |-> FALSE, readyState |-> 4],
      [currentTime |-> 1, paused |-> FALSE, ended |-> FALSE, readyState |-> 2],
      [currentTime |-> 1, paused |-> TRUE,  ended |-> TRUE,  readyState |-> 4] }

\* HTMLVideoElement.prototype.playing
playing(v) ==
    v.currentTime > 0 /\ ~v.paused /\ ~v.ended /\ v.readyState > 2

\* ------------------------------------------------------ worker configuration
filename == "cast.webm"
mimeType == "video/webm"

\* ------------------------------------------------------------ MediaRecorder
\* state : the MediaRecorder.state attribute
\* task  : the task queued when the recorder is inactivated:
\*         "none" not inactivated, "data" the final dataavailable is due,
\*         "stop" the stop event is due, "done" the stop event was fired
\* emitted : sizes of the chunks this recorder delivered, in order
NewRecorder == [state |-> "inactive", task |-> "none", emitted |-> <<>>]

MRstart(r)  == [r EXCEPT !.state = "recording"]
MRpause(r)  == [r EXCEPT !.state = "paused"]
MRresume(r) == [r EXCEPT !.state = "recording"]
MRstop(r)   == [r EXCEPT !.state = "inactive", !.task = "data"]

\* A recorder that consumes the stream or whose stop task is still queued.
Live(r) == r.state # "inactive"
Pending(r) == r.task \in {"data", "stop"}
InFlight(r) == Live(r) \/ Pending(r)

\* ---------------------------------------------------------------- chunks
\* Sizes of the chunks a recorder delivers: the zero-byte chunk and a chunk
\* of two bytes.
ChunkSizes == {0, 2}

\* A chunk is identified by the recorder that delivered it and its rank.
BlobBytes(c) == [i \in 1..c.size |-> <<c.rec, c.seq>>]

RECURSIVE Blob(_)
Blob(chunks) ==
    IF chunks = <<>> THEN <<>>
    ELSE BlobBytes(Head(chunks)) \o Blob(Tail(chunks))

\* ---------------------------------------------------------------- worker
NewWorker(v, cap) ==
    [ video |-> v,
      capturable |-> cap,
      mediaRecorder |-> 0,
      recorders |-> <<>>,
      recordedChunks |-> <<>>,
      downloads |-> <<>>,
      urls |-> {} ]

Ref(wk) == wk.recorders[wk.mediaRecorder]

\* faulty variant of onDataAvailable: the chunk is put in front of the buffer
onDataAvailable_front(wk, c) ==
    IF c.size > 0
    THEN [wk EXCEPT !.recordedChunks = <<c>> \o @]
    ELSE wk

\* faulty variant of onDataAvailable: the size of the chunk is not looked at
onDataAvailable_all(wk, c) ==
    [wk EXCEPT !.recordedChunks = Append(@, c)]

\* #onDataAvailable
onDataAvailable(wk, c) ==
    IF c.size > 0
    THEN [wk EXCEPT !.recordedChunks = Append(@, c)]
    ELSE wk

\* faulty variant of downloadVideo: the recorder is not disposed of
downloadVideo_keep(wk, r) ==
    LET blob == [type |-> mimeType, content |-> Blob(wk.recordedChunks)]
        url  == Len(wk.downloads) + 1
    IN  [wk EXCEPT !.downloads =
                       Append(@, [download |-> filename, type |-> blob.type,
                                  content |-> blob.content, href |-> url,
                                  by |-> r]),
                   !.recordedChunks = <<>>]

\* faulty variant of downloadVideo: recordedChunks is not reset
downloadVideo_nobuf(wk, r) ==
    LET blob == [type |-> mimeType, content |-> Blob(wk.recordedChunks)]
        url  == Len(wk.downloads) + 1
    IN  [wk EXCEPT !.downloads =
                       Append(@, [download |-> filename, type |-> blob.type,
                                  content |-> blob.content, href |-> url,
                                  by |-> r]),
                   !.mediaRecorder = 0]

\* #downloadVideo, called as the onstop handler of recorder r
downloadVideo(wk, r) ==
    LET blob == [type |-> mimeType, content |-> Blob(wk.recordedChunks)]
        url  == Len(wk.downloads) + 1
        made == [wk EXCEPT !.urls = @ \cup {url}]
        clicked == [made EXCEPT !.downloads =
                       Append(@, [download |-> filename, type |-> blob.type,
                                  content |-> blob.content, href |-> url,
                                  by |-> r])]
    IN  [clicked EXCEPT !.urls = @ \ {url},
                        !.mediaRecorder = 0,
                        !.recordedChunks = <<>>]

\* #newMediaRecorder: captureStream or the constructor throws when the
\* video cannot be captured.
newMediaRecorder(wk) ==
    IF wk.capturable
    THEN [thrown |-> FALSE, recorder |-> NewRecorder]
    ELSE [thrown |-> TRUE, recorder |-> NewRecorder]

\* faulty variant of start: a paused recorder is not resumed
start_noresume(wk) ==
    IF wk.mediaRecorder = 0 \/ Ref(wk).state = "inactive"
    THEN LET made == newMediaRecorder(wk)
             id   == Len(wk.recorders) + 1
             set  == [wk EXCEPT !.recorders = Append(@, made.recorder),
                                !.mediaRecorder = id]
         IN  IF made.thrown
             THEN [wk |-> wk, thrown |-> TRUE]
             ELSE IF playing(wk.video)
                  THEN [wk |-> [set EXCEPT !.recorders[id] = MRstart(@)],
                        thrown |-> FALSE]
                  ELSE [wk |-> set, thrown |-> FALSE]
    ELSE [wk |-> wk, thrown |-> FALSE]

\* faulty variant of start: a recorder that records is replaced like an inactive one
start_renew(wk) ==
    IF wk.mediaRecorder = 0 \/ Ref(wk).state # "paused"
    THEN LET made == newMediaRecorder(wk)
             id   == Len(wk.recorders) + 1
             set  == [wk EXCEPT !.recorders = Append(@, made.recorder),
                                !.mediaRecorder = id]
         IN  IF made.thrown
             THEN [wk |-> wk, thrown |-> TRUE]
             ELSE IF playing(wk.video)
                  THEN [wk |-> [set EXCEPT !.recorders[id] = MRstart(@)],
                        thrown |-> FALSE]
                  ELSE [wk |-> set, thrown |-> FALSE]
    ELSE [wk |-> [wk EXCEPT !.recorders[wk.mediaRecorder] = MRresume(@)],
          thrown |-> FALSE]

\* start(): the worker after the call, and whether the call threw
start(wk) ==
    IF wk.mediaRecorder = 0 \/ Ref(wk).state = "inactive"
    THEN LET made == newMediaRecorder(wk)
             id   == Len(wk.recorders) + 1
             set  == [wk EXCEPT !.recorders = Append(@, made.recorder),
                                !.mediaRecorder = id]
         IN  IF made.thrown
             THEN [wk |-> wk, thrown |-> TRUE]
             ELSE IF playing(wk.video)
                  THEN [wk |-> [set EXCEPT !.recorders[id] = MRstart(@)],
                        thrown |-> FALSE]
                  ELSE [wk |-> set, thrown |-> FALSE]
    ELSE IF Ref(wk).state = "paused"
         THEN [wk |-> [wk EXCEPT !.recorders[wk.mediaRecorder] = MRresume(@)],
               thrown |-> FALSE]
         ELSE [wk |-> wk, thrown |-> FALSE]

\* faulty variant of stop: the download is made at once, not left to onstop
stop_download(wk) ==
    IF wk.mediaRecorder # 0 /\ Ref(wk).state # "inactive"
    THEN downloadVideo([wk EXCEPT !.recorders[wk.mediaRecorder] = MRstop(@)],
                       wk.mediaRecorder)
    ELSE wk

\* stop()
stop(wk) ==
    IF wk.mediaRecorder # 0 /\ Ref(wk).state # "inactive"
    THEN [wk EXCEPT !.recorders[wk.mediaRecorder] = MRstop(@)]
    ELSE wk

\* faulty variant of pause: the state of the recorder is not looked at
pause_any(wk) ==
    IF wk.mediaRecorder # 0
    THEN [wk EXCEPT !.recorders[wk.mediaRecorder] = MRpause(@)]
    ELSE wk

\* pause()
pause(wk) ==
    IF wk.mediaRecorder # 0 /\ Ref(wk).state = "recording"
    THEN [wk EXCEPT !.recorders[wk.mediaRecorder] = MRpause(@)]
    ELSE wk

\* #onPlayingEvent: an exception of start() ends the listener, nothing more
onPlayingEvent(wk) ==
    IF wk.mediaRecorder # 0 THEN start(wk).wk ELSE wk

onStalledEvent(wk) == pause(wk)
onPauseEvent(wk) == pause(wk)
onEndedEvent(wk) == stop(wk)

\* VideoDownloader.start: the loop ends at the first worker that throws
RECURSIVE startAll(_, _)
startAll(ws, i) ==
    IF i > Len(ws)
    THEN [workers |-> ws, thrown |-> FALSE]
    ELSE LET r == start(ws[i])
         IN  IF r.thrown
             THEN [workers |-> ws, thrown |-> TRUE]
             ELSE startAll([ws EXCEPT ![i] = r.wk], i + 1)

\* VideoDownloader.stop
RECURSIVE stopAll(_, _)
stopAll(ws, i) ==
    IF i > Len(ws)
    THEN ws
    ELSE stopAll([ws EXCEPT ![i] = stop(ws[i])], i + 1)

\* ------------------------------------------------------- states of a worker
WorkerState(wk) ==
    IF wk.mediaRecorder = 0 THEN "Idle"
    ELSE IF Ref(wk).state = "recording" THEN "Recording"
    ELSE IF Ref(wk).state = "paused" THEN "Paused"
    ELSE IF Ref(wk).task = "none" THEN "Armed"
    ELSE "Stopping"

\* ------------------------------------------------------------ bookkeeping
W == 1..Len(workers)

\* Recorders a worker may create in this run.
RecLimit == IF Len(workers) = 1 THEN MaxRec ELSE OrchRec

\* start() would create a recorder
Creates(wk) == wk.mediaRecorder = 0 \/ Ref(wk).state = "inactive"
Room(wk) == ~Creates(wk) \/ ~wk.capturable \/ Len(wk.recorders) < RecLimit

\* the recorders of wk2 that never overlapped another recorder in flight
SoloNext(s, wk, wk2) ==
    IF Len(wk2.recorders) > Len(wk.recorders)
    THEN LET busy == {r \in 1..Len(wk.recorders) : InFlight(wk.recorders[r])}
         IN  (s \ busy) \cup (IF busy = {} THEN {Len(wk2.recorders)} ELSE {})
    ELSE s

\* progress of the sequence stalled, playing, ended, completion on a worker
\* whose referenced recorder rec is the only one in flight; mark is the
\* number of chunks rec delivered before the stall, base the number of
\* downloads made before the stall
NoScen == [stage |-> 0, rec |-> 0, mark |-> 0, base |-> 0]

\* Further stages: 5 when the stream of the referenced recorder rec of a
\* Recording or Paused worker ended without a call of stop(), 6 once that
\* recorder's stop event has fired with no other call or video event in
\* between.
ScenNext(sc, wk, ev, s) ==
    IF ev = "trackended" /\ WorkerState(wk) \in {"Recording", "Paused"}
    THEN [stage |-> 5, rec |-> wk.mediaRecorder, mark |-> Len(wk.recordedChunks),
          base |-> Len(wk.downloads)]
    ELSE IF ev = "onstop" /\ sc.stage = 5 THEN [sc EXCEPT !.stage = 6]
    ELSE IF ev = "stalled" /\ WorkerState(wk) = "Recording" /\ wk.mediaRecorder \in s
    THEN [stage |-> 1, rec |-> wk.mediaRecorder, mark |-> Len(Ref(wk).emitted),
          base |-> Len(wk.downloads)]
    ELSE IF ev = "playing" /\ sc.stage = 1 THEN [sc EXCEPT !.stage = 2]
    ELSE IF ev = "ended" /\ sc.stage = 2 THEN [sc EXCEPT !.stage = 3]
    ELSE IF ev = "onstop" /\ sc.stage = 3 THEN [sc EXCEPT !.stage = 4]
    ELSE IF ev = "data" THEN (IF sc.stage \in {4, 6} THEN NoScen ELSE sc)
    ELSE NoScen

\* chunks the first n recorders of wk delivered before their final chunk
RECURSIVE Early(_, _)
Early(wk, n) ==
    IF n = 0 THEN 0
    ELSE Early(wk, n - 1) + Len(wk.recorders[n].emitted)
         - (IF wk.recorders[n].task \in {"stop", "done"} THEN 1 ELSE 0)

\* faulty variant of Step: recordedChunks is one array shared by the workers
Step_shared(w, wk2, ev) ==
    /\ workers' = [u \in W |-> IF u = w THEN wk2
                               ELSE [workers[u] EXCEPT
                                       !.recordedChunks = wk2.recordedChunks]]
    /\ solo' = [solo EXCEPT ![w] = SoloNext(@, workers[w], wk2)]
    /\ scen' = [scen EXCEPT ![w] = ScenNext(@, workers[w], ev, solo[w])]
    /\ last' = [op |-> ev, w |-> w, from |-> WorkerState(workers[w])]

\* one worker takes a step
Step(w, wk2, ev) ==
    /\ workers' = [workers EXCEPT ![w] = wk2]
    /\ solo' = [solo EXCEPT ![w] = SoloNext(@, workers[w], wk2)]
    /\ scen' = [scen EXCEPT ![w] = ScenNext(@, workers[w], ev, solo[w])]
    /\ last' = [op |-> ev, w |-> w, from |-> WorkerState(workers[w])]

\* ---------------------------------------------------------------- actions
StartAll ==
    /\ \A w \in W : Room(workers[w])
    /\ LET r == startAll(workers, 1)
       IN  /\ workers' = r.workers
           /\ thrown' = r.thrown
           /\ solo' = [w \in W |-> SoloNext(solo[w], workers[w], r.workers[w])]
    /\ scen' = [w \in W |-> NoScen]
    /\ last' = [op |-> "startAll", w |-> 0, from |-> "Idle"]

StopAll ==
    /\ workers' = stopAll(workers, 1)
    /\ thrown' = FALSE
    /\ scen' = [w \in W |-> NoScen]
    /\ last' = [op |-> "stopAll", w |-> 0, from |-> "Idle"]
    /\ UNCHANGED solo

WorkerStart(w) ==
    /\ Room(workers[w])
    /\ Step(w, start(workers[w]).wk, "start")
    /\ thrown' = start(workers[w]).thrown

WorkerStop(w) ==
    /\ Step(w, stop(workers[w]), "stop")
    /\ thrown' = FALSE

WorkerPause(w) ==
    /\ Step(w, pause(workers[w]), "pauseCall")
    /\ thrown' = FALSE

\* The video fires 'playing': it is not paused, not ended and has data.
PlayingEvent(w) ==
    \E v \in {x \in VideoStates : ~x.paused /\ ~x.ended /\ x.readyState > 2} :
        LET wk == [workers[w] EXCEPT !.video = v]
        IN  /\ Room(wk)
            /\ Step(w, onPlayingEvent(wk), "playing")
            /\ UNCHANGED thrown

\* The video fires 'stalled': the fetch stalled, playback may go on.
StalledEvent(w) ==
    \E v \in {x \in VideoStates : ~x.ended /\ x.currentTime > 0} :
        /\ Step(w, onStalledEvent([workers[w] EXCEPT !.video = v]), "stalled")
        /\ UNCHANGED thrown

PauseEvent(w) ==
    \E v \in {x \in VideoStates : x.paused /\ ~x.ended} :
        /\ Step(w, onPauseEvent([workers[w] EXCEPT !.video = v]), "paused")
        /\ UNCHANGED thrown

EndedEvent(w) ==
    \E v \in {x \in VideoStates : x.ended} :
        /\ Step(w, onEndedEvent([workers[w] EXCEPT !.video = v]), "ended")
        /\ UNCHANGED thrown

\* Recorder r of worker w fires dataavailable: while it records, and once
\* more (the final chunk) after it was inactivated.
DataAvailable(w, r) ==
    /\ r \in 1..Len(workers[w].recorders)
    /\ LET wk  == workers[w]
           rec == wk.recorders[r]
       IN  /\ \/ rec.state = "recording" /\ Early(wk, Len(wk.recorders)) < MaxChunks
              \/ rec.task = "data"
           /\ \E size \in ChunkSizes :
                LET c == [rec |-> r, seq |-> Len(rec.emitted) + 1, size |-> size]
                    fired == [wk EXCEPT
                                !.recorders[r].emitted = Append(@, size),
                                !.recorders[r].task =
                                    IF @ = "data" THEN "stop" ELSE @]
                IN  Step(w, onDataAvailable(fired, c), "data")
    /\ UNCHANGED thrown

\* Recorder r of worker w fires stop.
Stopped(w, r) ==
    /\ r \in 1..Len(workers[w].recorders)
    /\ workers[w].recorders[r].task = "stop"
    /\ Step(w, downloadVideo([workers[w] EXCEPT !.recorders[r].task = "done"], r),
            IF workers[w].mediaRecorder = r THEN "onstop" ELSE "otherstop")
    /\ UNCHANGED thrown

\* The captured stream of recorder r ends (the video was removed, or its
\* tracks ended): the recorder is inactivated without a call of stop().
TrackEnded(w, r) ==
    /\ r \in 1..Len(workers[w].recorders)
    /\ Live(workers[w].recorders[r])
    /\ Step(w, [workers[w] EXCEPT !.recorders[r] = MRstop(@)],
            IF workers[w].mediaRecorder = r THEN "trackended" ELSE "othertrack")
    /\ UNCHANGED thrown

\* ---------------------------------------------------------- specifications
InitWith(n) ==
    /\ workers \in [1..n -> {NewWorker(v, cap) : v \in VideoStates, cap \in BOOLEAN}]
    /\ thrown = FALSE
    /\ solo = [w \in 1..n |-> {}]
    /\ scen = [w \in 1..n |-> NoScen]
    /\ last = [op |-> "new", w |-> 0, from |-> "Idle"]

Init == InitWith(1)

Next ==
    \/ StartAll
    \/ StopAll
    \/ \E w \in W : WorkerStart(w)
    \/ \E w \in W : WorkerStop(w)
    \/ \E w \in W : WorkerPause(w)
    \/ \E w \in W : PlayingEvent(w)
    \/ \E w \in W : StalledEvent(w)
    \/ \E w \in W : PauseEvent(w)
    \/ \E w \in W : EndedEvent(w)
    \/ \E w \in W, r \in 1..MaxRec : DataAvailable(w, r)
    \/ \E w \in W, r \in 1..MaxRec : Stopped(w, r)
    \/ \E w \in W, r \in 1..MaxRec : TrackEnded(w, r)

Spec == Init /\ [][Next]_vars

\* A page of NumVideos videos: the calls of the orchestrator and the
\* callbacks of the recorders they start.
OrchInit == InitWith(NumVideos)

OrchNext ==
    \/ StartAll
    \/ StopAll
    \/ \E w \in W : DataAvailable(w, 1)
    \/ \E w \in W : Stopped(w, 1)

OrchSpec == OrchInit /\ [][OrchNext]_vars

\* A page of two videos: every call and every handler of the two workers.
PairInit == InitWith(2)

PairSpec == PairInit /\ [][Next]_vars

\* A recorder that was inactivated delivers its final chunk and then its
\* stop event: the browser runs every task it has queued.
LiveSpec ==
    /\ Spec
    /\ \A w \in {1}, r \in 1..MaxRec :
          WF_vars(DataAvailable(w, r) /\ workers[w].recorders[r].task = "data")
    /\ \A w \in {1}, r \in 1..MaxRec : WF_vars(Stopped(w, r))


\* ===================================================================== claims
Downloads(w) == workers[w].downloads
Recs(w) == 1..Len(workers[w].recorders)

\* the chunks recorder r of worker w delivered, in the order of delivery
ChunksOf(w, r) ==
    [i \in 1..Len(workers[w].recorders[r].emitted) |->
        [rec |-> r, seq |-> i, size |-> workers[w].recorders[r].emitted[i]]]

NonEmpty(c) == c.size > 0

\* --------------------------------------------------------------------- C1
\* C1: startAll() leaves every worker whose own start() succeeds as its
\* start() leaves it (an idle, capturable worker is Recording when its video
\* is playing and Armed otherwise) whatever the other workers do, stopAll()
\* inactivates every recorder that records or is paused, and no call of the
\* orchestrator throws.
C1_FanOutIsolation ==
    [][ /\ StartAll =>
            /\ ~thrown'
            /\ \A w \in W :
                 workers[w].capturable /\ WorkerState(workers[w]) = "Idle"
                 => WorkerState(workers'[w]) =
                        IF playing(workers[w].video) THEN "Recording" ELSE "Armed"
        /\ StopAll =>
            /\ ~thrown'
            /\ \A w \in W :
                 WorkerState(workers[w]) \in {"Recording", "Paused"}
                 => WorkerState(workers'[w]) = "Stopping" ]_vars

\* --------------------------------------------------------------------- C2
\* C2: a recorder that was started and never overlapped another recorder of
\* its worker yields exactly one download when it completes, whose content
\* is the non-empty chunks it delivered, concatenated in the order of
\* delivery; and recordedChunks is empty right after every materialization.
C2_RoundTrip ==
    /\ [](\A w \in W : \A i \in 1..Len(Downloads(w)) :
            LET d == Downloads(w)[i]
            IN  d.by \in solo[w] =>
                  /\ d.content = Blob(SelectSeq(ChunksOf(w, d.by), NonEmpty))
                  /\ \A j \in 1..Len(Downloads(w)) :
                        Downloads(w)[j].by = d.by => j = i)
    /\ [][\A w \in W : \A r \in 1..MaxRec :
            Stopped(w, r) => workers'[w].recordedChunks = <<>>]_vars

\* a round trip of two non-empty chunks has completed
C2_Witness ==
    \E w \in W : \E i \in 1..Len(Downloads(w)) :
        /\ Downloads(w)[i].by \in solo[w]
        /\ Len(SelectSeq(ChunksOf(w, Downloads(w)[i].by), NonEmpty)) = 2
        /\ Len(Downloads(w)[i].content) = 4
        /\ last.op = "onstop"
        /\ workers[w].recordedChunks = <<>>

\* --------------------------------------------------------------------- C3
\* C3: start() on a worker that is Recording changes nothing of the worker
\* (same recorder, same recorders, same recordedChunks, no download) and
\* does not throw; and start() on an idle worker with a playing video and
\* no recorder in flight leaves exactly one live recorder, the referenced one.
C3_StartIdempotent ==
    [][\A w \in W :
        /\ (WorkerStart(w) \/ StartAll) /\ WorkerState(workers[w]) = "Recording"
           => workers'[w] = workers[w] /\ ~thrown'
        /\ /\ WorkerStart(w)
           /\ WorkerState(workers[w]) = "Idle"
           /\ workers[w].capturable /\ playing(workers[w].video)
           /\ \A r \in Recs(w) : ~InFlight(workers[w].recorders[r])
           => /\ WorkerState(workers'[w]) = "Recording"
              /\ \A r \in 1..Len(workers'[w].recorders) :
                    Live(workers'[w].recorders[r]) <=> r = workers'[w].mediaRecorder
      ]_vars

\* start() was called on a Recording worker that holds a chunk
C3_Witness ==
    /\ last.op = "start" /\ last.from = "Recording"
    /\ WorkerState(workers[last.w]) = "Recording"
    /\ workers[last.w].recordedChunks # <<>>

\* --------------------------------------------------------------------- C4
\* C4: stop() on an Armed worker leaves the worker Idle (no recorder
\* referenced), makes no download and leaves recordedChunks as it was.
C4_StopFromArmed ==
    [][\A w \in W :
        (WorkerStop(w) \/ StopAll) /\ WorkerState(workers[w]) = "Armed"
        => /\ WorkerState(workers'[w]) = "Idle"
           /\ workers'[w].downloads = workers[w].downloads
           /\ workers'[w].recordedChunks = workers[w].recordedChunks ]_vars

\* --------------------------------------------------------------------- C5
\* C5: a Recording worker whose recorder is the only one in flight and that
\* handles stalled, then playing, then ended is Paused, then Recording, then
\* stopping, and Idle once the recorder's stop event has fired; no download
\* is made before that event, which makes exactly one, holding every
\* non-empty chunk of the recorder: those of before the stall and those of
\* after the resumption.
C5_StallPlayEnd ==
    \A w \in W :
        LET sc == scen[w]
            wk == workers[w]
        IN  /\ sc.stage = 1 =>
                 WorkerState(wk) = "Paused" /\ Len(wk.downloads) = sc.base
            /\ sc.stage = 2 =>
                 WorkerState(wk) = "Recording" /\ Len(wk.downloads) = sc.base
            /\ sc.stage = 3 =>
                 WorkerState(wk) = "Stopping" /\ Len(wk.downloads) = sc.base
            /\ sc.stage = 4 =>
                 /\ WorkerState(wk) = "Idle"
                 /\ Len(wk.downloads) = sc.base + 1
                 /\ wk.downloads[sc.base + 1].by = sc.rec
                 /\ wk.downloads[sc.base + 1].content =
                        Blob(SelectSeq(ChunksOf(w, sc.rec), NonEmpty))

\* the sequence has completed with a non-empty chunk of each interval
C5_Witness ==
    \E w \in W :
        /\ scen[w].stage = 4
        /\ \E i, j \in 1..Len(ChunksOf(w, scen[w].rec)) :
              /\ i <= scen[w].mark /\ scen[w].mark < j
              /\ ChunksOf(w, scen[w].rec)[i].size > 0
              /\ ChunksOf(w, scen[w].rec)[j].size > 0

\* --------------------------------------------------------------------- C6
\* C6: every download holds chunks of one recorder only, the recorder whose
\* stop event made it.
C6_OneCyclePerArtifact ==
    \A w \in W : \A i \in 1..Len(Downloads(w)) :
        \A k \in 1..Len(Downloads(w)[i].content) :
            Downloads(w)[i].content[k][1] = Downloads(w)[i].by

\* --------------------------------------------------------------------- C7
\* C7: every recorder whose stop event has fired has made exactly one
\* download, a recorder whose stop event has not fired has made none, and
\* no object URL is left unrevoked.
C7_OneDownloadPerCycle ==
    \A w \in W :
        /\ workers[w].urls = {}
        /\ \A r \in Recs(w) :
              Cardinality({i \in 1..Len(Downloads(w)) : Downloads(w)[i].by = r})
                = IF workers[w].recorders[r].task = "done" THEN 1 ELSE 0

\* two recorders of one worker have completed, one of them with chunks
C7_Witness ==
    \E w \in W :
        /\ Len(Downloads(w)) = 2
        /\ Downloads(w)[1].by # Downloads(w)[2].by
        /\ Downloads(w)[1].content # <<>>
        /\ \A r \in Recs(w) : workers[w].recorders[r].task = "done"

\* --------------------------------------------------------------------- C8
\* C8: no download is made of an empty recordedChunks: every download has
\* content.
C8_NoEmptyArtifact ==
    \A w \in W : \A i \in 1..Len(Downloads(w)) : Downloads(w)[i].content # <<>>

\* --------------------------------------------------------------------- C9
\* C9: when start() fails to create the recorder, the worker is left Idle
\* with recordedChunks unchanged and the call does not throw; and no event
\* of the video makes a worker whose recorder cannot be created try again.
C9_OpenFailure ==
    [][\A w \in W :
        /\ WorkerStart(w) /\ Creates(workers[w]) /\ ~workers[w].capturable
           => /\ WorkerState(workers'[w]) = "Idle"
              /\ workers'[w].recordedChunks = workers[w].recordedChunks
              /\ ~thrown'
        /\ (PlayingEvent(w) \/ StalledEvent(w) \/ PauseEvent(w) \/ EndedEvent(w))
              /\ ~workers[w].capturable
           => workers'[w] = [workers[w] EXCEPT !.video = workers'[w].video]
      ]_vars

\* -------------------------------------------------------------------- C10
\* C10: a recorder that was inactivated (by stop(), by the ended event or by
\* the end of its stream) eventually fires its stop event, after which the
\* worker is Idle, recordedChunks is empty, the last download carries the
\* file name and every non-empty chunk of the recorder is in a download;
\* and the download every stop event makes is the Blob of recordedChunks.
Chunked(w, r) ==
    \A c \in 1..Len(ChunksOf(w, r)) :
        ChunksOf(w, r)[c].size > 0 =>
            \E i \in 1..Len(Downloads(w)) :
                \E k \in 1..Len(Downloads(w)[i].content) :
                    Downloads(w)[i].content[k] = <<r, c>>

Terminating(w, r) == r \in Recs(w) /\ Pending(workers[w].recorders[r])

Materialized(w, r) ==
    /\ r \in Recs(w) /\ workers[w].recorders[r].task = "done"
    /\ WorkerState(workers[w]) = "Idle"
    /\ workers[w].recordedChunks = <<>>
    /\ Len(Downloads(w)) > 0
    /\ Downloads(w)[Len(Downloads(w))].by = r
    /\ Downloads(w)[Len(Downloads(w))].download = filename
    /\ Chunked(w, r)

C10_StopTerminates ==
    /\ \A r \in 1..MaxRec : Terminating(1, r) ~> Materialized(1, r)
    /\ [][\A r \in 1..MaxRec : Stopped(1, r) =>
            /\ Len(workers'[1].downloads) = Len(workers[1].downloads) + 1
            /\ workers'[1].downloads[Len(workers'[1].downloads)].content
                 = Blob(workers[1].recordedChunks)]_vars

\* stop() was called on a worker that records or is paused and holds a chunk
C10_Witness ==
    /\ last.op \in {"stop", "ended"} /\ last.from \in {"Recording", "Paused"}
    /\ WorkerState(workers[1]) = "Stopping"
    /\ workers[1].recordedChunks # <<>>


\* -------------------------------------------------------------------- C11
\* The transition table of the specification (section 4.2): the state after
\* event ev in state st, ready being the value of the readiness predicate.
\* A pair the table does not list leaves the state as it is.
Table(st, ev, ready) ==
    IF st = "Idle" /\ ev = "start" THEN (IF ready THEN "Recording" ELSE "Armed")
    ELSE IF st = "Armed" /\ ev = "playing" THEN "Recording"
    ELSE IF st = "Recording" /\ ev \in {"stalled", "paused"} THEN "Paused"
    ELSE IF st \in {"Recording", "Paused"} /\ ev \in {"ended", "stop"} THEN "Idle"
    ELSE IF st = "Paused" /\ ev = "start" THEN "Recording"
    ELSE st

\* The state of the table a worker is in: a worker whose recorder was
\* stopped and has not fired its stop event yet counts as Idle.
TableState(wk) ==
    IF WorkerState(wk) = "Stopping" THEN "Idle" ELSE WorkerState(wk)

Listed(st, ev) ==
    \/ st = "Idle" /\ ev \in {"start", "pauseCall"}
    \/ st = "Armed" /\ ev = "playing"
    \/ st = "Recording" /\ ev \in {"stalled", "paused", "ended", "stop", "data"}
    \/ st = "Paused" /\ ev \in {"ended", "stop", "start", "data"}
    \/ st = "Armed" /\ ev = "data"

\* C11: every step a worker takes on an event the table lists for its state
\* ends in the state the table gives (for a worker whose recorder can be
\* created), so that the state after a sequence of events is a function of
\* the states and events.
C11_FollowsTable ==
    [][\A w \in W :
        /\ last'.w = w
        /\ workers'[w].capturable
        /\ Listed(TableState(workers[w]), last'.op)
        => TableState(workers'[w]) =
             Table(TableState(workers[w]), last'.op, playing(workers'[w].video))
      ]_vars

\* -------------------------------------------------------------------- C12
\* C12: pause() on a worker that is not Recording and stop() on a worker
\* that is Idle change nothing of the worker: same recorder reference, same
\* recorders, same recordedChunks, no download.
C12_NoOpFrame ==
    [][\A w \in W :
        /\ WorkerPause(w) /\ WorkerState(workers[w]) # "Recording"
           => workers'[w] = workers[w]
        /\ (WorkerStop(w) \/ StopAll) /\ WorkerState(workers[w]) = "Idle"
           => workers'[w] = workers[w]
      ]_vars

\* pause() was called on a Paused worker that holds a chunk
C12_Witness ==
    /\ last.op = "pauseCall" /\ last.from = "Paused"
    /\ WorkerState(workers[last.w]) = "Paused"
    /\ workers[last.w].recordedChunks # <<>>

\* -------------------------------------------------------------------- C13
\* C13: the playing event on an Armed worker leaves it Recording, with the
\* same recorder referenced and no recorder created, whatever the video's
\* attributes are at the event.
C13_DeferredStart ==
    [][\A w \in W :
        PlayingEvent(w) /\ WorkerState(workers[w]) = "Armed"
        => /\ WorkerState(workers'[w]) = "Recording"
           /\ workers'[w].mediaRecorder = workers[w].mediaRecorder
           /\ Len(workers'[w].recorders) = Len(workers[w].recorders)
      ]_vars

\* -------------------------------------------------------------------- C14
\* C14: on a worker that start() left with a recorder (Armed, Recording or
\* Paused) and that has no other recorder in flight, every playing event
\* ends in Recording, and every stalled or pause event on a Recording or
\* Paused worker ends in Paused.
OnlyRef(w) ==
    \A r \in 1..Len(workers[w].recorders) :
        InFlight(workers[w].recorders[r]) => r = workers[w].mediaRecorder

C14_SelfHealing ==
    [][\A w \in W :
        /\ PlayingEvent(w) /\ OnlyRef(w)
             /\ WorkerState(workers[w]) \in {"Armed", "Recording", "Paused"}
           => WorkerState(workers'[w]) = "Recording"
        /\ (StalledEvent(w) \/ PauseEvent(w)) /\ OnlyRef(w)
             /\ WorkerState(workers[w]) \in {"Recording", "Paused"}
           => WorkerState(workers'[w]) = "Paused"
      ]_vars


\* -------------------------------------------------------------------- C15
\* C15: recordedChunks holds chunks of non-zero size only, those of one
\* recorder in the order of their delivery; a dataavailable event appends
\* its chunk at the end when the chunk is not empty and changes nothing when
\* it is empty; a stop event empties recordedChunks; no other step changes it.
\* (A step is a dataavailable event of the recorders whose list of delivered
\* chunks grows, and a stop event of the recorder whose stop task gets done.)
C15_BufferContent ==
    /\ [](\A w \in W :
            LET buf == workers[w].recordedChunks
            IN  /\ \A i \in 1..Len(buf) : buf[i].size > 0
                /\ \A i, j \in 1..Len(buf) :
                      i < j /\ buf[i].rec = buf[j].rec => buf[i].seq < buf[j].seq)
    /\ [][\A w \in W :
            LET buf  == workers[w].recordedChunks
                buf2 == workers'[w].recordedChunks
                fired == {r \in Recs(w) :
                            Len(workers'[w].recorders[r].emitted)
                              > Len(workers[w].recorders[r].emitted)}
                stopped == {r \in Recs(w) :
                              /\ workers[w].recorders[r].task = "stop"
                              /\ workers'[w].recorders[r].task = "done"}
            IN  /\ \A r \in fired :
                      LET n    == Len(workers'[w].recorders[r].emitted)
                          size == workers'[w].recorders[r].emitted[n]
                      IN  buf2 = IF size > 0
                                 THEN Append(buf, [rec |-> r, seq |-> n, size |-> size])
                                 ELSE buf
                /\ stopped # {} => buf2 = <<>>
                /\ fired = {} /\ stopped = {} => buf2 = buf
         ]_vars

\* an empty chunk was delivered to a worker that holds a chunk
C15_Witness ==
    \E w \in W : \E r \in Recs(w) :
        /\ last.op = "data" /\ last.w = w
        /\ workers[w].recordedChunks # <<>>
        /\ workers[w].recorders[r].task = "stop"
        /\ workers[w].recorders[r].emitted[Len(workers[w].recorders[r].emitted)] = 0

\* -------------------------------------------------------------------- C16
\* C16: recordedChunks is not empty only while the worker references a
\* recorder; the recordedChunks of an Idle worker is empty.
C16_EmptyWhenIdle ==
    \A w \in W :
        WorkerState(workers[w]) = "Idle" => workers[w].recordedChunks = <<>>

\* -------------------------------------------------------------------- C17
\* C17: when the stream of the referenced recorder of a Recording or Paused
\* worker ends without stop() or the ended event, the worker makes no
\* download before the recorder's stop event; right after that event it is
\* Idle with recordedChunks empty, and it has made exactly one more download,
\* which is the Blob of the recordedChunks of then and holds every non-empty
\* chunk of the recorder.
C17_UnexpectedTermination ==
    /\ [](\A w \in W :
            LET sc == scen[w]
                wk == workers[w]
            IN  /\ sc.stage = 5 =>
                     /\ WorkerState(wk) = "Stopping"
                     /\ wk.mediaRecorder = sc.rec
                     /\ Len(wk.downloads) = sc.base
                /\ sc.stage = 6 =>
                     /\ WorkerState(wk) = "Idle"
                     /\ wk.recordedChunks = <<>>
                     /\ Len(wk.downloads) = sc.base + 1
                     /\ wk.downloads[sc.base + 1].by = sc.rec
                     /\ wk.downloads[sc.base + 1].download = filename
                     /\ Chunked(w, sc.rec))
    /\ [][\A w \in W :
            scen[w].stage = 5 /\ scen'[w].stage = 6 =>
                workers'[w].downloads[scen[w].base + 1].content
                    = Blob(workers[w].recordedChunks)]_vars

\* the stream ended under a worker that held a chunk, and the stop event of
\* its recorder has fired
C17_Witness ==
    \E w \in W :
        /\ scen[w].stage = 6
        /\ scen[w].mark > 0
        /\ Len(workers[w].downloads[scen[w].base + 1].content) > 0

\* -------------------------------------------------------------------- C18
\* C18: every recorder that records or is paused is the recorder its worker
\* references, so that stop() reaches it.
C18_NoOrphan ==
    \A w \in W : \A r \in Recs(w) :
        Live(workers[w].recorders[r]) => workers[w].mediaRecorder = r

\* -------------------------------------------------------------------- C19
\* C19: the step a worker takes right after a call of stop(), when it is not
\* a call of start(), starts or resumes no recorder: every recorder that
\* records after the step recorded before it.
C19_StopSticky ==
    [][\A w \in W :
        /\ last.op = "stopAll" \/ (last.op = "stop" /\ last.w = w)
        /\ ~ (WorkerStart(w) \/ StartAll)
        => \A r \in 1..Len(workers'[w].recorders) :
              workers'[w].recorders[r].state = "recording"
              => /\ r <= Len(workers[w].recorders)
                 /\ workers[w].recorders[r].state = "recording"
      ]_vars


\* -------------------------------------------------------------------- C20
\* C20: a call, video event, chunk or stop event handled by one worker
\* leaves every other worker as it is (recorder reference, recorders,
\* recordedChunks and downloads); start() and stop() of the orchestrator
\* leave each worker as it is or as its own start() or stop() leaves it; no
\* step changes the number or the order of the workers and their videos.
C20_WorkerIndependence ==
    [][/\ Len(workers') = Len(workers)
       /\ \A w \in W : workers'[w].video = workers[w].video \/ last'.w = w
       /\ \A w \in W : last'.w = w =>
             \A u \in W \ {w} : workers'[u] = workers[u]
       /\ StartAll => \A w \in W :
             workers'[w] \in {workers[w], start(workers[w]).wk}
       /\ StopAll => \A w \in W : workers'[w] = stop(workers[w])
      ]_vars

\* a chunk was delivered to one worker while the other worker, which
\* references a recorder, holds a chunk too
C20_Witness ==
    /\ Len(workers) = 2
    /\ \E w, u \in W :
         /\ w # u
         /\ last.op = "data" /\ last.w = w
         /\ workers[w].recordedChunks # <<>>
         /\ workers[u].recordedChunks # <<>>
         /\ workers[u].mediaRecorder # 0


====
